---- MODULE Spec2Model ----
(***************************************************************************)
(* Model of the MCP configuration engine of gzh-cli-mcp-plugin:            *)
(*   - the Settings Store  (~/.claude/settings.json, field enabledPlugins) *)
(*   - the Global Server Store (~/.claude.json, field mcpServers)          *)
(*   - the Plugin Cache Scanner (~/.claude/plugins/cache)                  *)
(*   - the Aggregator (config.Reader.ListMCPServers)                       *)
(*   - the Mutator (config.Writer, claudeconfig.Reader, ToggleUseCase)     *)
(* A file is modelled by the JSON value it holds (or by "absent" /         *)
(* "invalid"); encoding/json is modelled by what it does to that value.    *)
(***************************************************************************)
EXTENDS Integers, Sequences, FiniteSets, TLC

VARIABLES settings, claude, cache, last, listed, procs, parsed

vars == <<settings, claude, cache, last, listed, procs, parsed>>

(***************************************************************************)
(* Bounds of the model.                                                    *)
(***************************************************************************)
\* numbers in opaque fields are hi * 2^53 + lo with lo in 0..MaxLo
MaxLo == 1
\* number of projects of ~/.claude.json that may carry an mcpServers map
MaxProjects == 2
\* length of the strings given to parsePluginID
MaxIdLen == 4

(***************************************************************************)
(* Identifiers.                                                            *)
(***************************************************************************)
\* plugin identifiers used as keys of enabledPlugins
Ids == {"a@pub", "b@pub"}
\* server names; "x" and "X" differ only in case
Names == {"x", "X"}
\* top-level fields of settings.json the engine does not manage;
\* "$schema" is typed (string) in claudeconfig.Settings, customField is not
SettingsOtherKeys == {"$schema", "customField"}
\* top-level fields of ~/.claude.json the engine does not manage
ClaudeOtherKeys == {"numStartups"}

EmptyMap == [k \in {} |-> "null"]
EmptyBoolMap == [k \in {} |-> FALSE]

Put(f, k, v) == [x \in (DOMAIN f) \cup {k} |-> IF x = k THEN v ELSE f[x]]
Del(f, k) == [x \in (DOMAIN f) \ {k} |-> f[x]]

\* all maps from a subset of K to V
PartialMaps(K, V) == UNION {[D -> V] : D \in SUBSET K}

(***************************************************************************)
(* JSON values of opaque fields: a string, null, or the integer            *)
(* hi * 2^53 + lo.                                                         *)
(***************************************************************************)
StrVal == [t |-> "str", hi |-> 0, lo |-> 0]
NullVal == [t |-> "null", hi |-> 0, lo |-> 0]
NumVal(h, l) == [t |-> "num", hi |-> h, lo |-> l]
OpaqueVals == {StrVal, NullVal} \cup {NumVal(h, l) : h \in {0, 1}, l \in 0..MaxLo}

\* json.Unmarshal into interface{} stores every number as a float64: an
\* integer 2^53 + lo (53 < exponent < 54, spacing 2) is rounded to the
\* nearest representable value, ties to the even mantissa.
Float64Lo(h, l) ==
    IF h = 0 \/ l % 2 = 0 THEN l
    ELSE IF (l - 1) % 4 = 0 THEN l - 1 ELSE l + 1

\* json.Unmarshal(data, &map[string]interface{}) on one value
DecodeAny(v) == IF v.t = "num" THEN NumVal(v.hi, Float64Lo(v.hi, v.lo)) ELSE v

\* json.MarshalIndent of a decoded value: a float64 prints as the shortest
\* decimal that reads back to it, strings and null print as themselves
EncodeAny(v) == v

\* a map of opaque fields read into a generic tree and serialised again
RoundTrip(other) == [k \in DOMAIN other |-> EncodeAny(DecodeAny(other[k]))]

BoolTok(b) == IF b THEN "true" ELSE "false"

(***************************************************************************)
(* The Settings Store file.  st: "absent" | "invalid" | "doc".             *)
(* ep is the enabledPlugins field: t is "absent" | "null" | "other" (a     *)
(* value that is neither null nor an object) | "obj"; m maps each key of   *)
(* the object to a token "true" | "false" | "null" | "str" (any value that *)
(* is neither a boolean nor null).                                         *)
(***************************************************************************)
EntryToks == {"true", "false", "null", "str"}
NoField == [t |-> "absent", m |-> EmptyMap]
FileAbsent == [st |-> "absent", other |-> EmptyMap, ep |-> NoField]
FileInvalid == [st |-> "invalid", other |-> EmptyMap, ep |-> NoField]
SettingsDoc(o, e) == [st |-> "doc", other |-> o, ep |-> e]

EpFields(K) ==
    {[t |-> x, m |-> EmptyMap] : x \in {"absent", "null", "other"}}
    \cup {[t |-> "obj", m |-> f] : f \in PartialMaps(K, EntryToks)}

\* os.WriteFile(path, output, 0644): the file is opened with O_TRUNC, then
\* written; "denied" is a failed open (file untouched), "partial" a failed
\* write after the truncation
WriteOutcomes == {"ok", "denied", "partial"}
WriteFile(old, new, outcome) ==
    CASE outcome = "ok" -> new
      [] outcome = "denied" -> old
      [] OTHER -> [st |-> "invalid", other |-> EmptyMap, ep |-> NoField]

(***************************************************************************)
(* Result of the last operation.                                           *)
(***************************************************************************)
\* was: what the store held for the key when the operation started;
\* after / afterEnabled: the successful operation on the same key that
\* immediately preceded this one, and the value it reported
Result(op, id, was, err, enabled, exists, already, wrote) ==
    [op |-> op, id |-> id, was |-> was, err |-> err, enabled |-> enabled,
     exists |-> exists, already |-> already, wrote |-> wrote,
     after |-> IF last.err = "none" /\ last.id = id THEN last.op ELSE "",
     afterEnabled |-> last.err = "none" /\ last.id = id /\ last.enabled]

NoResult ==
    [op |-> "", id |-> "", was |-> "", err |-> "none", enabled |-> FALSE,
     exists |-> FALSE, already |-> FALSE, wrote |-> FALSE, after |-> "",
     afterEnabled |-> FALSE]

\* what settings.json holds for a plugin identifier
Stored(s, id) ==
    CASE s.st # "doc" -> s.st
      [] s.ep.t # "obj" -> "unknown"
      [] id \notin DOMAIN s.ep.m -> "unknown"
      [] OTHER -> s.ep.m[id]

(***************************************************************************)
(* config.Writer: settings.json through a generic tree.                    *)
(***************************************************************************)
\* variant: an entry that is already a boolean is flipped, not set
SetPluginEnabledDocToggles(s, pluginID, enabled) ==
    LET enabledPlugins == IF s.ep.t = "obj" THEN s.ep.m ELSE EmptyMap
        value == IF pluginID \in DOMAIN enabledPlugins
                    /\ enabledPlugins[pluginID] \in {"true", "false"}
                 THEN enabledPlugins[pluginID] # "true"
                 ELSE enabled
    IN SettingsDoc(RoundTrip(s.other),
                   [t |-> "obj", m |-> Put(enabledPlugins, pluginID, BoolTok(value))])

\* the document SetPluginEnabled serialises
SetPluginEnabledDoc(s, pluginID, enabled) ==
    LET enabledPlugins == IF s.ep.t = "obj" THEN s.ep.m ELSE EmptyMap
    IN SettingsDoc(RoundTrip(s.other),
                   [t |-> "obj", m |-> Put(enabledPlugins, pluginID, BoolTok(enabled))])

SetPluginEnabled(pluginID, enabled) ==
    /\ \E outcome \in WriteOutcomes :
        CASE settings.st = "absent" ->
                /\ last' = Result("SetPluginEnabled", pluginID, Stored(settings, pluginID), "io", FALSE, FALSE, FALSE, FALSE)
                /\ UNCHANGED settings
          [] settings.st = "invalid" ->
                /\ last' = Result("SetPluginEnabled", pluginID, Stored(settings, pluginID), "parse", FALSE, FALSE, FALSE, FALSE)
                /\ UNCHANGED settings
          [] OTHER ->
                /\ settings' = WriteFile(settings, SetPluginEnabledDoc(settings, pluginID, enabled), outcome)
                /\ last' = Result("SetPluginEnabled", pluginID, Stored(settings, pluginID),
                                  IF outcome = "ok" THEN "none" ELSE "io",
                                  enabled, FALSE, FALSE, TRUE)
    /\ UNCHANGED <<claude, cache, listed, procs, parsed>>

\* variant: only the enabled entries are collected
ListPluginsEnabledOnly(s) ==
    CASE s.st = "absent" -> [err |-> "io", plugins |-> EmptyBoolMap]
      [] s.st = "invalid" -> [err |-> "parse", plugins |-> EmptyBoolMap]
      [] s.ep.t # "obj" -> [err |-> "none", plugins |-> EmptyBoolMap]
      [] OTHER ->
            [err |-> "none",
             plugins |-> [k \in {x \in DOMAIN s.ep.m : s.ep.m[x] = "true"} |-> TRUE]]

\* Writer.ListPlugins: err and the map of boolean entries
ListPlugins(s) ==
    CASE s.st = "absent" -> [err |-> "io", plugins |-> EmptyBoolMap]
      [] s.st = "invalid" -> [err |-> "parse", plugins |-> EmptyBoolMap]
      [] s.ep.t # "obj" -> [err |-> "none", plugins |-> EmptyBoolMap]
      [] OTHER ->
            [err |-> "none",
             plugins |-> [k \in {x \in DOMAIN s.ep.m : s.ep.m[x] \in {"true", "false"}}
                            |-> s.ep.m[k] = "true"]]

GetPluginStatus(pluginID) ==
    /\ LET r == ListPlugins(settings)
           exists == r.err = "none" /\ pluginID \in DOMAIN r.plugins
       IN last' = Result("GetPluginStatus", pluginID, Stored(settings, pluginID), r.err,
                         exists /\ r.plugins[pluginID], exists, FALSE, FALSE)
    /\ UNCHANGED <<settings, claude, cache, listed, procs, parsed>>

(***************************************************************************)
(* claudeconfig.Reader: settings.json through the typed Settings struct.   *)
(***************************************************************************)
\* json.Unmarshal(data, &Settings{}) succeeds: Schema is a string,
\* EnabledPlugins a map[string]bool (null leaves the zero value)
SettingsTypedOk(s) ==
    /\ "$schema" \in DOMAIN s.other => s.other["$schema"].t \in {"str", "null"}
    /\ s.ep.t # "other"
    /\ s.ep.t = "obj" => \A k \in DOMAIN s.ep.m : s.ep.m[k] # "str"

\* variant: a missing file is an error
ReadSettingsStrict(s) ==
    CASE s.st = "absent" -> [err |-> "io", EnabledPlugins |-> EmptyBoolMap]
      [] s.st = "invalid" -> [err |-> "parse", EnabledPlugins |-> EmptyBoolMap]
      [] ~SettingsTypedOk(s) -> [err |-> "parse", EnabledPlugins |-> EmptyBoolMap]
      [] OTHER ->
            [err |-> "none",
             EnabledPlugins |-> IF s.ep.t = "obj"
                                THEN [k \in DOMAIN s.ep.m |-> s.ep.m[k] = "true"]
                                ELSE EmptyBoolMap]

ReadSettings(s) ==
    CASE s.st = "absent" -> [err |-> "none", EnabledPlugins |-> EmptyBoolMap]
      [] s.st = "invalid" -> [err |-> "parse", EnabledPlugins |-> EmptyBoolMap]
      [] ~SettingsTypedOk(s) -> [err |-> "parse", EnabledPlugins |-> EmptyBoolMap]
      [] OTHER ->
            [err |-> "none",
             EnabledPlugins |-> IF s.ep.t = "obj"
                                THEN [k \in DOMAIN s.ep.m |-> s.ep.m[k] = "true"]
                                ELSE EmptyBoolMap]

\* variant: nothing is written when there is no document to update
WriteSettingsDocNoCreate(s, plugins) ==
    LET m == [k \in DOMAIN plugins |-> BoolTok(plugins[k])]
    IN IF s.st = "doc"
       THEN SettingsDoc(RoundTrip(s.other), [t |-> "obj", m |-> m])
       ELSE s

\* the document WriteSettings serialises: the existing generic tree with
\* enabledPlugins replaced, or a fresh Settings struct when there is none
WriteSettingsDoc(s, plugins) ==
    LET m == [k \in DOMAIN plugins |-> BoolTok(plugins[k])]
    IN IF s.st = "doc"
       THEN SettingsDoc(RoundTrip(s.other), [t |-> "obj", m |-> m])
       ELSE SettingsDoc(EmptyMap, [t |-> "obj", m |-> m])

\* variant: an identifier that is not a key is reported as NotFound
IsPluginEnabledNotFound(s, pluginID) ==
    LET r == ReadSettings(s)
    IN [err |-> IF r.err = "none" /\ pluginID \notin DOMAIN r.EnabledPlugins
                THEN "notfound" ELSE r.err,
        enabled |-> r.err = "none" /\ pluginID \in DOMAIN r.EnabledPlugins
                    /\ r.EnabledPlugins[pluginID]]

IsPluginEnabled(s, pluginID) ==
    LET r == ReadSettings(s)
    IN [err |-> r.err,
        enabled |-> r.err = "none" /\ pluginID \in DOMAIN r.EnabledPlugins
                    /\ r.EnabledPlugins[pluginID]]

\* variant: an identifier that is not a key of the map is refused
SetPluginExistingOnly(s, pluginID, value, outcome) ==
    LET r == ReadSettings(s)
    IN IF r.err # "none"
       THEN [err |-> r.err, file |-> s, wrote |-> FALSE]
       ELSE IF pluginID \notin DOMAIN r.EnabledPlugins
       THEN [err |-> "notfound", file |-> s, wrote |-> FALSE]
       ELSE [err |-> IF outcome = "ok" THEN "none" ELSE "io",
             file |-> WriteFile(s, WriteSettingsDoc(s, Put(r.EnabledPlugins, pluginID, value)), outcome),
             wrote |-> TRUE]

\* EnablePlugin / DisablePlugin: the file they leave and their error
SetPlugin(s, pluginID, value, outcome) ==
    LET r == ReadSettings(s)
    IN IF r.err # "none"
       THEN [err |-> r.err, file |-> s, wrote |-> FALSE]
       ELSE [err |-> IF outcome = "ok" THEN "none" ELSE "io",
             file |-> WriteFile(s, WriteSettingsDoc(s, Put(r.EnabledPlugins, pluginID, value)), outcome),
             wrote |-> TRUE]

\* variant: EnablePlugin stores false
EnablePluginStoresFalse(s, pluginID, outcome) == SetPlugin(s, pluginID, FALSE, outcome)

EnablePlugin(s, pluginID, outcome) == SetPlugin(s, pluginID, TRUE, outcome)
DisablePlugin(s, pluginID, outcome) == SetPlugin(s, pluginID, FALSE, outcome)

(***************************************************************************)
(* ToggleUseCase over the PluginRepository backed by claudeconfig.Reader.  *)
(***************************************************************************)
\* variant: Enable without the currentlyEnabled early return
EnableAlwaysWrites(pluginID) ==
    /\ \E outcome \in WriteOutcomes :
        LET cur == IsPluginEnabled(settings, pluginID)
            w == EnablePlugin(settings, pluginID, outcome)
        IN CASE cur.err # "none" ->
                   /\ last' = Result("Enable", pluginID, Stored(settings, pluginID), cur.err, FALSE, FALSE, FALSE, FALSE)
                   /\ UNCHANGED settings
             [] OTHER ->
                   /\ settings' = w.file
                   /\ last' = Result("Enable", pluginID, Stored(settings, pluginID), w.err, w.err = "none", FALSE, FALSE, w.wrote)
    /\ UNCHANGED <<claude, cache, listed, procs, parsed>>

Enable(pluginID) ==
    /\ \E outcome \in WriteOutcomes :
        LET cur == IsPluginEnabled(settings, pluginID)
            w == EnablePlugin(settings, pluginID, outcome)
        IN CASE cur.err # "none" ->
                   /\ last' = Result("Enable", pluginID, Stored(settings, pluginID), cur.err, FALSE, FALSE, FALSE, FALSE)
                   /\ UNCHANGED settings
             [] cur.enabled ->
                   /\ last' = Result("Enable", pluginID, Stored(settings, pluginID), "none", TRUE, FALSE, TRUE, FALSE)
                   /\ UNCHANGED settings
             [] OTHER ->
                   /\ settings' = w.file
                   /\ last' = Result("Enable", pluginID, Stored(settings, pluginID), w.err, w.err = "none", FALSE, FALSE, w.wrote)
    /\ UNCHANGED <<claude, cache, listed, procs, parsed>>

Disable(pluginID) ==
    /\ \E outcome \in WriteOutcomes :
        LET cur == IsPluginEnabled(settings, pluginID)
            w == DisablePlugin(settings, pluginID, outcome)
        IN CASE cur.err # "none" ->
                   /\ last' = Result("Disable", pluginID, Stored(settings, pluginID), cur.err, FALSE, FALSE, FALSE, FALSE)
                   /\ UNCHANGED settings
             [] ~cur.enabled ->
                   /\ last' = Result("Disable", pluginID, Stored(settings, pluginID), "none", FALSE, FALSE, TRUE, FALSE)
                   /\ UNCHANGED settings
             [] OTHER ->
                   /\ settings' = w.file
                   /\ last' = Result("Disable", pluginID, Stored(settings, pluginID), w.err, FALSE, FALSE, FALSE, w.wrote)
    /\ UNCHANGED <<claude, cache, listed, procs, parsed>>

Status(pluginID) ==
    /\ LET cur == IsPluginEnabled(settings, pluginID)
       IN last' = Result("Status", pluginID, Stored(settings, pluginID), cur.err, cur.enabled, FALSE, FALSE, FALSE)
    /\ UNCHANGED <<settings, claude, cache, listed, procs, parsed>>

(***************************************************************************)
(* Server definitions as they appear in a JSON document.  A value of a     *)
(* server map is an object (obj = TRUE, absent fields are "" / <<>> /      *)
(* the empty map / FALSE) or any other JSON value (obj = FALSE, val).      *)
(***************************************************************************)
NoHeaders == [k \in {} |-> ""]
AuthHeaders == [k \in {"Authorization"} |-> "t"]

ServerObj(type, command, args, url, headers, enabled) ==
    [obj |-> TRUE, val |-> NullVal, type |-> type, command |-> command,
     args |-> args, url |-> url, headers |-> headers, enabled |-> enabled]
NonObject(v) ==
    [obj |-> FALSE, val |-> v, type |-> "", command |-> "", args |-> <<>>,
     url |-> "", headers |-> NoHeaders, enabled |-> FALSE]

\* a generic tree read and serialised again: the fields of an object are
\* strings and booleans, any other value goes through float64 if a number
RoundTripEntries(m) ==
    [k \in DOMAIN m |-> IF m[k].obj THEN m[k]
                        ELSE NonObject(EncodeAny(DecodeAny(m[k].val)))]

(***************************************************************************)
(* ~/.claude.json.  ms is the top-level mcpServers field (t: "absent" |    *)
(* "other" | "obj"), projects the projects field: t is "absent", "bad" (a  *)
(* value json.Unmarshal cannot store in ClaudeConfig) or "obj", and p maps *)
(* a project path to the mcpServers map of that project.                   *)
(***************************************************************************)
NoServers == [k \in {} |-> NonObject(NullVal)]
NoMs == [t |-> "absent", m |-> NoServers]
NoProjectMaps == [k \in {} |-> NoServers]
NoProjects == [t |-> "absent", p |-> NoProjectMaps]
ClaudeAbsent == [st |-> "absent", other |-> EmptyMap, ms |-> NoMs, projects |-> NoProjects]
ClaudeInvalid == [st |-> "invalid", other |-> EmptyMap, ms |-> NoMs, projects |-> NoProjects]
ClaudeDoc(o, m, pr) == [st |-> "doc", other |-> o, ms |-> m, projects |-> pr]

WriteClaude(old, new, outcome) ==
    CASE outcome = "ok" -> new
      [] outcome = "denied" -> old
      [] OTHER -> ClaudeInvalid

\* what ~/.claude.json holds for a server name in its managed map
StoredServer(c, name) ==
    CASE c.st # "doc" -> c.st
      [] c.ms.t # "obj" -> "nomap"
      [] name \notin DOMAIN c.ms.m -> "missing"
      [] OTHER -> "present"

(***************************************************************************)
(* config.Writer: the Global Server Store.                                 *)
(***************************************************************************)
\* MCPServerEntry values passed to AddMCPServer
Entry(type, command, args, url, headers, enabled) ==
    [Type |-> type, Command |-> command, Args |-> args, URL |-> url,
     Headers |-> headers, Enabled |-> enabled]

Lower(name) == IF name = "X" THEN "x" ELSE name

\* variant: the presence check ignores case
NameExistsAnyCase(mcpServers, name) ==
    Lower(name) \in {Lower(k) : k \in DOMAIN mcpServers}

\* _, exists := mcpServers[name]
NameExists(mcpServers, name) == name \in DOMAIN mcpServers

\* the serverConfig map AddMCPServer builds: non-empty fields only
ServerConfig(entry) ==
    ServerObj(entry.Type, entry.Command, entry.Args, entry.URL,
              entry.Headers, entry.Enabled)

\* the document AddMCPServer serialises
AddMCPServerDoc(c, name, entry) ==
    LET mcpServers == IF c.ms.t = "obj" THEN c.ms.m ELSE NoServers
    IN ClaudeDoc(RoundTrip(c.other),
                 [t |-> "obj",
                  m |-> RoundTripEntries(Put(mcpServers, name, ServerConfig(entry)))],
                 c.projects)

AddMCPServer(name, entry) ==
    /\ \E outcome \in WriteOutcomes :
        LET was == StoredServer(claude, name)
            mcpServers == IF claude.ms.t = "obj" THEN claude.ms.m ELSE NoServers
        IN CASE claude.st = "absent" ->
                   /\ last' = Result("AddMCPServer", name, was, "io", FALSE, FALSE, FALSE, FALSE)
                   /\ UNCHANGED claude
             [] claude.st = "invalid" ->
                   /\ last' = Result("AddMCPServer", name, was, "parse", FALSE, FALSE, FALSE, FALSE)
                   /\ UNCHANGED claude
             [] NameExists(mcpServers, name) ->
                   /\ last' = Result("AddMCPServer", name, was, "exists", FALSE, TRUE, FALSE, FALSE)
                   /\ UNCHANGED claude
             [] OTHER ->
                   /\ claude' = WriteClaude(claude, AddMCPServerDoc(claude, name, entry), outcome)
                   /\ last' = Result("AddMCPServer", name, was,
                                     IF outcome = "ok" THEN "none" ELSE "io",
                                     entry.Enabled, FALSE, FALSE, TRUE)
    /\ listed' = <<>>
    /\ UNCHANGED <<settings, cache, procs, parsed>>

\* variant: the entry is looked up but not deleted
RemoveMCPServerDocKeeps(c, name) ==
    ClaudeDoc(RoundTrip(c.other),
              [t |-> "obj", m |-> RoundTripEntries(c.ms.m)],
              c.projects)

\* the document RemoveMCPServer serialises (mcpServers is an object)
RemoveMCPServerDoc(c, name) ==
    ClaudeDoc(RoundTrip(c.other),
              [t |-> "obj", m |-> RoundTripEntries(Del(c.ms.m, name))],
              c.projects)

RemoveMCPServer(name) ==
    /\ \E outcome \in WriteOutcomes :
        LET was == StoredServer(claude, name)
        IN CASE claude.st = "absent" ->
                   /\ last' = Result("RemoveMCPServer", name, was, "io", FALSE, FALSE, FALSE, FALSE)
                   /\ UNCHANGED claude
             [] claude.st = "invalid" ->
                   /\ last' = Result("RemoveMCPServer", name, was, "parse", FALSE, FALSE, FALSE, FALSE)
                   /\ UNCHANGED claude
             [] claude.ms.t # "obj" ->
                   /\ last' = Result("RemoveMCPServer", name, was, "notfound", FALSE, FALSE, FALSE, FALSE)
                   /\ UNCHANGED claude
             [] ~NameExists(claude.ms.m, name) ->
                   /\ last' = Result("RemoveMCPServer", name, was, "notfound", FALSE, FALSE, FALSE, FALSE)
                   /\ UNCHANGED claude
             [] OTHER ->
                   /\ claude' = WriteClaude(claude, RemoveMCPServerDoc(claude, name), outcome)
                   /\ last' = Result("RemoveMCPServer", name, was,
                                     IF outcome = "ok" THEN "none" ELSE "io",
                                     FALSE, TRUE, FALSE, TRUE)
    /\ listed' = <<>>
    /\ UNCHANGED <<settings, cache, procs, parsed>>

(***************************************************************************)
(* config.Writer: reading the Global Server Store back, and the commands   *)
(* that replace a server by RemoveMCPServer followed by AddMCPServer.      *)
(***************************************************************************)
\* variant: every entry of mcpServers is returned, objects or not
ListMCPServersGlobalResultKeepsAll(c) ==
    CASE c.st = "absent" -> [err |-> "io", servers |-> EmptyMap]
      [] c.st = "invalid" -> [err |-> "parse", servers |-> EmptyMap]
      [] c.ms.t # "obj" -> [err |-> "none", servers |-> EmptyMap]
      [] OTHER ->
            [err |-> "none",
             servers |-> [name \in DOMAIN c.ms.m |->
                            Entry(c.ms.m[name].type, c.ms.m[name].command,
                                  c.ms.m[name].args, c.ms.m[name].url, NoHeaders,
                                  c.ms.m[name].enabled)]]

\* ListMCPServersGlobal: err and the map it returns.  Only the entries that
\* are objects are kept; type, command, args, url and enabled are copied,
\* Headers is left at its zero value
ListMCPServersGlobalResult(c) ==
    CASE c.st = "absent" -> [err |-> "io", servers |-> EmptyMap]
      [] c.st = "invalid" -> [err |-> "parse", servers |-> EmptyMap]
      [] c.ms.t # "obj" -> [err |-> "none", servers |-> EmptyMap]
      [] OTHER ->
            [err |-> "none",
             servers |-> [name \in {k \in DOMAIN c.ms.m : c.ms.m[k].obj} |->
                            Entry(c.ms.m[name].type, c.ms.m[name].command,
                                  c.ms.m[name].args, c.ms.m[name].url, NoHeaders,
                                  c.ms.m[name].enabled)]]

ListMCPServersGlobal ==
    /\ LET r == ListMCPServersGlobalResult(claude)
       IN /\ listed' = r.servers
          /\ last' = Result("ListMCPServersGlobal", last.id, "", r.err, FALSE, FALSE, FALSE, FALSE)
    /\ UNCHANGED <<settings, claude, cache, procs, parsed>>

MCPServerExists(name) ==
    /\ LET r == ListMCPServersGlobalResult(claude)
       IN last' = Result("MCPServerExists", name, StoredServer(claude, name), r.err,
                         FALSE, r.err = "none" /\ name \in DOMAIN r.servers, FALSE, FALSE)
    /\ UNCHANGED <<settings, claude, cache, listed, procs, parsed>>

\* the file RemoveMCPServer leaves and its error
RemoveMCPServerOn(c, name, outcome) ==
    CASE c.st = "absent" -> [err |-> "io", file |-> c]
      [] c.st = "invalid" -> [err |-> "parse", file |-> c]
      [] c.ms.t # "obj" -> [err |-> "notfound", file |-> c]
      [] ~NameExists(c.ms.m, name) -> [err |-> "notfound", file |-> c]
      [] OTHER -> [err |-> IF outcome = "ok" THEN "none" ELSE "io",
                   file |-> WriteClaude(c, RemoveMCPServerDoc(c, name), outcome)]

\* the file AddMCPServer leaves and its error
AddMCPServerOn(c, name, entry, outcome) ==
    CASE c.st = "absent" -> [err |-> "io", file |-> c]
      [] c.st = "invalid" -> [err |-> "parse", file |-> c]
      [] NameExists(IF c.ms.t = "obj" THEN c.ms.m ELSE NoServers, name) ->
            [err |-> "exists", file |-> c]
      [] OTHER -> [err |-> IF outcome = "ok" THEN "none" ELSE "io",
                   file |-> WriteClaude(c, AddMCPServerDoc(c, name, entry), outcome)]

\* "Remove then add to update": AddMCPServer is called on the file that a
\* successful RemoveMCPServer left; removed tells that RemoveMCPServer
\* returned no error
RemoveThenAdd(c, name, entry, o1, o2) ==
    LET rem == RemoveMCPServerOn(c, name, o1)
        add == AddMCPServerOn(rem.file, name, entry, o2)
    IN IF rem.err # "none" THEN [err |-> rem.err, file |-> rem.file, removed |-> FALSE]
       ELSE [err |-> add.err, file |-> add.file, removed |-> TRUE]

\* updateArgsToLatest for the package "pkg" and the latest version 2.0.0:
\* the first argument that names the package gets the version suffix
updateArgsToLatest(args) ==
    LET hits == {i \in 1..Len(args) : args[i] \in {"pkg", "pkg@1.0.0", "pkg@2.0.0"}}
    IN IF hits = {} THEN args
       ELSE [args EXCEPT ![CHOOSE i \in hits : \A j \in hits : i <= j] = "pkg@2.0.0"]

\* runUpdate, the update of one server: the entry is read back, its
\* arguments renewed, the server removed and added again.  In the result,
\* exists tells that the server was found and wrote that RemoveMCPServer
\* succeeded
runUpdate(name) ==
    /\ \E o1, o2 \in WriteOutcomes :
        LET r == ListMCPServersGlobalResult(claude)
            was == StoredServer(claude, name)
        IN CASE r.err # "none" ->
                   /\ last' = Result("runUpdate", name, was, r.err, FALSE, FALSE, FALSE, FALSE)
                   /\ UNCHANGED claude
             [] name \notin DOMAIN r.servers ->
                   /\ last' = Result("runUpdate", name, was, "notfound", FALSE, FALSE, FALSE, FALSE)
                   /\ UNCHANGED claude
             [] OTHER ->
                   LET entry == r.servers[name]
                       newEntry == Entry(entry.Type, entry.Command,
                                         updateArgsToLatest(entry.Args), entry.URL,
                                         entry.Headers, entry.Enabled)
                       rp == RemoveThenAdd(claude, name, newEntry, o1, o2)
                   IN /\ claude' = rp.file
                      /\ last' = Result("runUpdate", name, was, rp.err, newEntry.Enabled, TRUE, FALSE, rp.removed)
    /\ listed' = <<>>
    /\ UNCHANGED <<settings, cache, procs, parsed>>

\* runConfigImport with --merge, the import of one server of the file: the
\* error of ListMCPServersGlobal is discarded and leaves no existing server
runConfigImport(name, entry) ==
    /\ \E o1, o2 \in WriteOutcomes :
        LET r == ListMCPServersGlobalResult(claude)
            was == StoredServer(claude, name)
            exists == name \in DOMAIN r.servers
            add == AddMCPServerOn(claude, name, entry, o2)
            rp == IF exists THEN RemoveThenAdd(claude, name, entry, o1, o2)
                  ELSE [err |-> add.err, file |-> add.file, removed |-> FALSE]
        IN /\ claude' = rp.file
           /\ last' = Result("runConfigImport", name, was, rp.err, entry.Enabled, exists, FALSE,
                             rp.removed)
    /\ listed' = <<>>
    /\ UNCHANGED <<settings, cache, procs, parsed>>

(***************************************************************************)
(* The plugin cache ~/.claude/plugins/cache.  st is "absent" or "dir";     *)
(* pubs lists the entries of the directory in the order os.ReadDir returns *)
(* them (sorted by name).  An entry is a file, a directory that cannot be  *)
(* read ("noperm") or a directory with its own sorted entries; a           *)
(* sub-directory may hold directories of its own (vers) and holds a        *)
(* descriptor .mcp.json: absent, invalid JSON or a                         *)
(* document with the top-level keys other than mcpServers (top) and the    *)
(* mcpServers key (wrap.t: "absent" | "bad" (not an object) | "obj").      *)
(***************************************************************************)
NoWrap == [t |-> "absent", m |-> NoServers]
DescAbsent == [st |-> "absent", top |-> NoServers, wrap |-> NoWrap]
DescInvalid == [st |-> "invalid", top |-> NoServers, wrap |-> NoWrap]
Descriptor(top, wrap) == [st |-> "doc", top |-> top, wrap |-> wrap]

\* a directory below a sub-directory, with its own descriptor
VersionDir(name, desc) == [name |-> name, desc |-> desc]

SubFile(name) == [name |-> name, kind |-> "file", desc |-> DescAbsent, vers |-> <<>>]
SubDir(name, desc) == [name |-> name, kind |-> "dir", desc |-> desc, vers |-> <<>>]
\* a sub-directory that holds directories of its own (vers, sorted by name)
PluginDir(name, desc, vers) == [name |-> name, kind |-> "dir", desc |-> desc, vers |-> vers]
PubFile(name) == [name |-> name, kind |-> "file", subs |-> <<>>]
PubNoPerm(name) == [name |-> name, kind |-> "noperm", subs |-> <<>>]
PubDir(name, subs) == [name |-> name, kind |-> "dir", subs |-> subs]

CacheAbsent == [st |-> "absent", pubs |-> <<>>]
CacheDir(pubs) == [st |-> "dir", pubs |-> pubs]

ClaudePath == <<".claude.json">>
McpPath(pub, sub) == <<".claude", "plugins", "cache", pub, sub, ".mcp.json">>
\* the path of a descriptor one level further down
VersionPath(pub, sub, ver) == <<".claude", "plugins", "cache", pub, sub, ver, ".mcp.json">>

(***************************************************************************)
(* config.Reader: the Aggregator.                                          *)
(***************************************************************************)
\* json.Unmarshal can store the value in an MCPServerConfig: an object, or
\* null, which leaves the zero value
CfgDecodable(v) == v.obj \/ v.val = NullVal

\* variant: the type of the origin is copied, never inferred
MCPServerOfNoInference(name, cfg, source) ==
    [Name |-> name, Type |-> cfg.type, URL |-> cfg.url, Command |-> cfg.command,
     Args |-> cfg.args, Headers |-> cfg.headers, Enabled |-> FALSE,
     Source |-> source]

\* the MCPServer built from one entry of a server map
MCPServerOf(name, cfg, source) ==
    [Name |-> name,
     Type |-> IF cfg.type # "" THEN cfg.type
              ELSE IF cfg.command # "" THEN "command" ELSE "http",
     URL |-> cfg.url, Command |-> cfg.command, Args |-> cfg.args,
     Headers |-> cfg.headers, Enabled |-> FALSE, Source |-> source]

RECURSIVE Perms(_)
\* the orders in which a range loop may visit the keys of a Go map
Perms(S) ==
    IF S = {} THEN {<<>>}
    ELSE UNION {{<<e>> \o p : p \in Perms(S \ {e})} : e \in S}

RECURSIVE Cat(_)
\* Cat(<<S1, ..., Sn>>) = {s1 \o ... \o sn : s1 \in S1, ..., sn \in Sn}
Cat(ss) ==
    IF ss = <<>> THEN {<<>>}
    ELSE {a \o b : a \in Head(ss), b \in Cat(Tail(ss))}

\* the slices a loop over the map m may append, skipping the keys in skip
MapListings(m, skip, source) ==
    {[i \in 1..Len(o) |-> MCPServerOf(o[i], m[o[i]], source)] :
        o \in Perms((DOMAIN m) \ skip)}

\* readClaudeJSON: err and the slices it may return
ReadClaudeJSON(c) ==
    CASE c.st = "absent" -> [err |-> "io", servers |-> {<<>>}]
      [] c.st = "invalid" -> [err |-> "parse", servers |-> {<<>>}]
      [] c.projects.t = "bad" -> [err |-> "parse", servers |-> {<<>>}]
      [] OTHER ->
            [err |-> "none",
             servers |->
                UNION {Cat([i \in 1..Len(po) |->
                              MapListings(c.projects.p[po[i]], {}, ClaudePath)]) :
                         po \in Perms(DOMAIN c.projects.p)}]

\* the map[string]MCPServerConfig a descriptor decodes to: every top-level
\* key, the key mcpServers included
FlatConfig(d) ==
    IF d.wrap.t = "absent" THEN d.top
    ELSE Put(d.top, "mcpServers",
             IF d.wrap.t = "obj" THEN ServerObj("", "", <<>>, "", NoHeaders, FALSE)
             ELSE NonObject(StrVal))

FlatOk(d) ==
    d.st = "doc" /\ \A k \in DOMAIN FlatConfig(d) : CfgDecodable(FlatConfig(d)[k])

WrappedOk(d) ==
    /\ d.st = "doc" /\ d.wrap.t = "obj"
    /\ \A k \in DOMAIN d.wrap.m : CfgDecodable(d.wrap.m[k])
    /\ DOMAIN d.wrap.m # {}

\* variant: the first interpretation takes the key mcpServers for a server
DescriptorListingsNoSkip(d, source) ==
    Cat(<<IF FlatOk(d) THEN MapListings(FlatConfig(d), {}, source)
          ELSE {<<>>},
          IF WrappedOk(d) THEN MapListings(d.wrap.m, {}, source)
          ELSE {<<>>}>>)

\* the slices one descriptor may contribute: first interpretation, then second
DescriptorListings(d, source) ==
    Cat(<<IF FlatOk(d) THEN MapListings(FlatConfig(d), {"mcpServers"}, source)
          ELSE {<<>>},
          IF WrappedOk(d) THEN MapListings(d.wrap.m, {}, source)
          ELSE {<<>>}>>)

PubListings(pub) ==
    IF pub.kind # "dir" THEN {<<>>}
    ELSE Cat([j \in 1..Len(pub.subs) |->
                IF pub.subs[j].kind # "dir" \/ pub.subs[j].desc.st = "absent"
                THEN {<<>>}
                ELSE DescriptorListings(pub.subs[j].desc,
                                        McpPath(pub.name, pub.subs[j].name))])

\* variant: an entry of the cache that cannot be read ends the scan with an
\* error
ReadPluginConfigsStops(k) ==
    IF k.st = "absent" \/ \E i \in 1..Len(k.pubs) : k.pubs[i].kind = "noperm"
    THEN [err |-> "io", servers |-> {<<>>}]
    ELSE [err |-> "none",
          servers |-> Cat([i \in 1..Len(k.pubs) |-> PubListings(k.pubs[i])])]

\* readPluginConfigs: err and the slices it may return
ReadPluginConfigs(k) ==
    IF k.st = "absent" THEN [err |-> "io", servers |-> {<<>>}]
    ELSE [err |-> "none",
          servers |-> Cat([i \in 1..Len(k.pubs) |-> PubListings(k.pubs[i])])]

\* Reader.readSettings: json.Unmarshal into SettingsConfig, whose only
\* field is EnabledPlugins map[string]bool (null leaves the zero value)
ReaderSettingsOk(s) ==
    /\ s.st = "doc"
    /\ s.ep.t # "other"
    /\ s.ep.t = "obj" => \A k \in DOMAIN s.ep.m : s.ep.m[k] # "str"

\* the map readSettings returns; nil (empty) on any error
ReadSettingsMap(s) ==
    IF ReaderSettingsOk(s) /\ s.ep.t = "obj"
    THEN [k \in DOMAIN s.ep.m |-> s.ep.m[k] = "true"]
    ELSE EmptyBoolMap

Overlay(servers, enabledPlugins) ==
    [i \in 1..Len(servers) |->
        IF servers[i].Name \in DOMAIN enabledPlugins
        THEN [servers[i] EXCEPT !.Enabled = enabledPlugins[servers[i].Name]]
        ELSE servers[i]]

\* variant: a source that cannot be read makes the whole listing empty
ListMCPServersResultsFailFast(s, c, k) ==
    LET cj == ReadClaudeJSON(c)
        pc == ReadPluginConfigs(k)
    IN IF cj.err # "none" \/ pc.err # "none" THEN {<<>>}
       ELSE {Overlay(a \o b, ReadSettingsMap(s)) : a \in cj.servers, b \in pc.servers}

RECURSIVE FirstByName(_, _)
\* servers without the entries whose name is in seen or occurs earlier
FirstByName(servers, seen) ==
    IF servers = <<>> THEN <<>>
    ELSE IF Head(servers).Name \in seen THEN FirstByName(Tail(servers), seen)
    ELSE <<Head(servers)>> \o FirstByName(Tail(servers), seen \cup {Head(servers).Name})

\* variant: entries of the same name are merged into the first one
ListMCPServersResultsMerged(s, c, k) ==
    LET cj == ReadClaudeJSON(c)
        pc == ReadPluginConfigs(k)
    IN {Overlay(FirstByName(a \o b, {}), ReadSettingsMap(s)) : a \in cj.servers, b \in pc.servers}

\* the slices ListMCPServers may return
ListMCPServersResults(s, c, k) ==
    LET cj == ReadClaudeJSON(c)
        pc == ReadPluginConfigs(k)
    IN {Overlay(a \o b, ReadSettingsMap(s)) : a \in cj.servers, b \in pc.servers}

ListMCPServers ==
    /\ listed' \in ListMCPServersResults(settings, claude, cache)
    /\ last' = Result("ListMCPServers", last.id, "", "none", FALSE, FALSE, FALSE, FALSE)
    /\ UNCHANGED <<settings, claude, cache, procs, parsed>>

(***************************************************************************)
(* Strings as Go sees them: sequences of bytes.  Identifiers are kept as   *)
(* TLA+ strings in the stores; Chars gives the characters of each, Byte    *)
(* the byte of a character.                                                *)
(***************************************************************************)
Byte(c) ==
    CASE c = "-" -> 45 [] c = "/" -> 47 [] c = "@" -> 64 [] c = "B" -> 66
      [] c = "X" -> 88 [] c = "a" -> 97 [] c = "b" -> 98 [] c = "p" -> 112
      [] c = "u" -> 117 [] c = "x" -> 120

Chars(id) ==
    CASE id = "a@pub" -> <<"a", "@", "p", "u", "b">>
      [] id = "b@pub" -> <<"b", "@", "p", "u", "b">>
      [] id = "B@pub" -> <<"B", "@", "p", "u", "b">>
      [] id = "a@b@pub" -> <<"a", "@", "b", "@", "p", "u", "b">>
      [] id = "ab" -> <<"a", "b">>
      [] id = "x" -> <<"x">>
      [] id = "X" -> <<"X">>

RECURSIVE Less(_, _)
\* s < t of two Go strings: lexicographic order of their bytes
Less(s, t) ==
    IF t = <<>> THEN FALSE
    ELSE IF s = <<>> THEN TRUE
    ELSE IF Byte(Head(s)) # Byte(Head(t)) THEN Byte(Head(s)) < Byte(Head(t))
    ELSE Less(Tail(s), Tail(t))

RECURSIVE FirstAt(_, _)
\* the first position of "@" in id at or after i, 0 if there is none
FirstAt(id, i) ==
    IF i > Len(id) THEN 0 ELSE IF id[i] = "@" THEN i ELSE FirstAt(id, i + 1)

RECURSIVE LastAt(_, _)
\* for i := len(id) - 1; i >= 0; i-- { if id[i] == '@' ... }: the last
\* position of "@" in id at or before i (positions from 1), 0 if none
LastAt(id, i) ==
    IF i = 0 THEN 0 ELSE IF id[i] = "@" THEN i ELSE LastAt(id, i - 1)

\* variant: the split is made at the first "@"
parsePluginIDFirst(id) ==
    LET i == FirstAt(id, 1)
    IN IF i = 0 THEN [name |-> id, publisher |-> <<>>]
       ELSE [name |-> SubSeq(id, 1, i - 1), publisher |-> SubSeq(id, i + 1, Len(id))]

parsePluginID(id) ==
    LET i == LastAt(id, Len(id))
    IN IF i = 0 THEN [name |-> id, publisher |-> <<>>]
       ELSE [name |-> SubSeq(id, 1, i - 1), publisher |-> SubSeq(id, i + 1, Len(id))]

\* the argument and the result of one call of parsePluginID
NoParse == [in |-> <<>>, done |-> FALSE, name |-> <<>>, publisher |-> <<>>]

ParsePluginID ==
    /\ ~parsed.done
    /\ parsed' = [in |-> parsed.in, done |-> TRUE,
                  name |-> parsePluginID(parsed.in).name,
                  publisher |-> parsePluginID(parsed.in).publisher]
    /\ UNCHANGED <<settings, claude, cache, last, listed, procs>>

(***************************************************************************)
(* ListUseCase over the PluginRepository, and the list command.            *)
(***************************************************************************)
PluginInfo(id, enabled) ==
    [ID |-> id, Name |-> parsePluginID(Chars(id)).name,
     Publisher |-> parsePluginID(Chars(id)).publisher, Enabled |-> enabled]

\* variant: the enabledOnly filter is not applied
SelectedAll(plugins, enabledOnly) == DOMAIN plugins

\* the identifiers the loop of Execute keeps
Selected(plugins, enabledOnly) ==
    {id \in DOMAIN plugins : ~(enabledOnly /\ ~plugins[id])}

\* x put into the slice s, which is sorted by ID
Insert(x, s) ==
    LET k == Cardinality({i \in 1..Len(s) : Less(Chars(s[i].ID), Chars(x.ID))})
    IN SubSeq(s, 1, k) \o <<x>> \o SubSeq(s, k + 1, Len(s))

RECURSIVE SortByID(_)
\* sort.Slice(result, func(i, j) { return result[i].ID < result[j].ID })
SortByID(s) == IF s = <<>> THEN <<>> ELSE Insert(Head(s), SortByID(Tail(s)))

\* ListUseCase.Execute: err and the slices it may return, one for each
\* order in which the range loop visits the map
ExecuteResults(s, enabledOnly) ==
    LET r == ReadSettings(s)
    IN IF r.err # "none" THEN [err |-> r.err, results |-> {<<>>}]
       ELSE [err |-> "none",
             results |->
                {SortByID([i \in 1..Len(o) |-> PluginInfo(o[i], r.EnabledPlugins[o[i]])]) :
                    o \in Perms(Selected(r.EnabledPlugins, enabledOnly))}]

\* the result carries enabledOnly in its field enabled
Execute(enabledOnly) ==
    /\ listed' \in ExecuteResults(settings, enabledOnly).results
    /\ last' = Result("Execute", "", "", ExecuteResults(settings, enabledOnly).err,
                      enabledOnly, FALSE, FALSE, FALSE)
    /\ UNCHANGED <<settings, claude, cache, procs, parsed>>

\* runList: the servers it prints, in the order it prints them
runList(servers, listEnabledOnly) ==
    SelectSeq(servers, LAMBDA server : ~(listEnabledOnly /\ ~server.Enabled))

(***************************************************************************)
(* Two invocations of the tool running at the same time.  A mutation is    *)
(* two steps: Begin reads the document (os.ReadFile), End changes the copy *)
(* it read and writes it (os.WriteFile); nothing orders the steps of two   *)
(* invocations.  seen is the number of successful writes made before the   *)
(* read, at the position of the invocation's own write among them.         *)
(***************************************************************************)
Procs == {1, 2}

Idle ==
    [pc |-> "idle", op |-> "", id |-> "", value |-> FALSE, snapS |-> FileAbsent,
     snapC |-> ClaudeAbsent, err |-> "", seen |-> 0, at |-> 0]

NoProcs == [p \in Procs |-> Idle]

\* successful writes made so far
Writes == Cardinality({q \in Procs : procs[q].at > 0})

BeginAddMCPServer(p, name) ==
    /\ procs[p].pc = "idle"
    /\ procs' = [procs EXCEPT ![p] = [Idle EXCEPT !.pc = "read", !.op = "AddMCPServer",
                                         !.id = name, !.snapC = claude, !.seen = Writes]]
    /\ UNCHANGED <<settings, claude, cache, last, listed, parsed>>

\* variant: the document is read again when it is written
EndAddMCPServerRereads(p, entry) ==
    /\ procs[p].pc = "read" /\ procs[p].op = "AddMCPServer"
    /\ \E outcome \in WriteOutcomes :
        LET config == claude
            name == procs[p].id
            mcpServers == IF config.ms.t = "obj" THEN config.ms.m ELSE NoServers
            done(err, n) == [procs EXCEPT ![p].pc = "done", ![p].err = err, ![p].at = n]
        IN CASE config.st = "absent" -> procs' = done("io", 0) /\ UNCHANGED claude
             [] config.st = "invalid" -> procs' = done("parse", 0) /\ UNCHANGED claude
             [] NameExists(mcpServers, name) -> procs' = done("exists", 0) /\ UNCHANGED claude
             [] OTHER ->
                   /\ claude' = WriteClaude(claude, AddMCPServerDoc(config, name, entry), outcome)
                   /\ procs' = IF outcome = "ok" THEN done("none", Writes + 1) ELSE done("io", 0)
    /\ UNCHANGED <<settings, cache, last, listed, parsed>>

EndAddMCPServer(p, entry) ==
    /\ procs[p].pc = "read" /\ procs[p].op = "AddMCPServer"
    /\ \E outcome \in WriteOutcomes :
        LET config == procs[p].snapC
            name == procs[p].id
            mcpServers == IF config.ms.t = "obj" THEN config.ms.m ELSE NoServers
            done(err, n) == [procs EXCEPT ![p].pc = "done", ![p].err = err, ![p].at = n]
        IN CASE config.st = "absent" -> procs' = done("io", 0) /\ UNCHANGED claude
             [] config.st = "invalid" -> procs' = done("parse", 0) /\ UNCHANGED claude
             [] NameExists(mcpServers, name) -> procs' = done("exists", 0) /\ UNCHANGED claude
             [] OTHER ->
                   /\ claude' = WriteClaude(claude, AddMCPServerDoc(config, name, entry), outcome)
                   /\ procs' = IF outcome = "ok" THEN done("none", Writes + 1) ELSE done("io", 0)
    /\ UNCHANGED <<settings, cache, last, listed, parsed>>

BeginSetPluginEnabled(p, pluginID, enabled) ==
    /\ procs[p].pc = "idle"
    /\ procs' = [procs EXCEPT ![p] = [Idle EXCEPT !.pc = "read", !.op = "SetPluginEnabled",
                                         !.id = pluginID, !.value = enabled,
                                         !.snapS = settings, !.seen = Writes]]
    /\ UNCHANGED <<settings, claude, cache, last, listed, parsed>>

EndSetPluginEnabled(p) ==
    /\ procs[p].pc = "read" /\ procs[p].op = "SetPluginEnabled"
    /\ \E outcome \in WriteOutcomes :
        LET s == procs[p].snapS
            done(err, n) == [procs EXCEPT ![p].pc = "done", ![p].err = err, ![p].at = n]
        IN CASE s.st = "absent" -> procs' = done("io", 0) /\ UNCHANGED settings
             [] s.st = "invalid" -> procs' = done("parse", 0) /\ UNCHANGED settings
             [] OTHER ->
                   /\ settings' = WriteFile(settings,
                                            SetPluginEnabledDoc(s, procs[p].id, procs[p].value),
                                            outcome)
                   /\ procs' = IF outcome = "ok" THEN done("none", Writes + 1) ELSE done("io", 0)
    /\ UNCHANGED <<claude, cache, last, listed, parsed>>

(***************************************************************************)
(* Specification of the Settings Store and the toggle state machine.       *)
(***************************************************************************)
SettingsFiles ==
    {FileAbsent, FileInvalid}
    \cup {SettingsDoc(o, e) : o \in PartialMaps(SettingsOtherKeys, OpaqueVals),
                              e \in EpFields(Ids)}

InitSettings ==
    /\ settings \in SettingsFiles
    /\ claude = ClaudeAbsent
    /\ cache = CacheAbsent
    /\ last = NoResult
    /\ listed = <<>>
    /\ procs = NoProcs
    /\ parsed = NoParse

NextSettings ==
    \/ \E id \in Ids, v \in BOOLEAN : SetPluginEnabled(id, v)
    \/ \E id \in Ids : GetPluginStatus(id)
    \/ \E id \in Ids : Enable(id)
    \/ \E id \in Ids : Disable(id)
    \/ \E id \in Ids : Status(id)

SpecSettings == InitSettings /\ [][NextSettings]_vars

(***************************************************************************)
(* Specification of the Global Server Store.                               *)
(***************************************************************************)
\* entries given to AddMCPServer: the four shapes runInstall builds (npx,
\* uvx, http), an http entry with headers, an enabled entry and the empty one
Entries ==
    {Entry("stdio", "npx", <<"-y", "pkg">>, "", NoHeaders, FALSE),
     Entry("http", "", <<>>, "https://u", NoHeaders, FALSE),
     Entry("http", "", <<>>, "https://u", AuthHeaders, TRUE),
     Entry("", "", <<>>, "", NoHeaders, FALSE)}

\* values an existing mcpServers map may hold
ExistingServerVals ==
    {ServerObj("stdio", "npx", <<"-y", "pkg">>, "", NoHeaders, FALSE),
     ServerObj("", "", <<>>, "https://u", NoHeaders, FALSE),
     NonObject(StrVal), NonObject(NullVal)}

MsFields ==
    {[t |-> x, m |-> NoServers] : x \in {"absent", "other"}}
    \cup {[t |-> "obj", m |-> f] : f \in PartialMaps(Names, ExistingServerVals)}

InitStore ==
    /\ claude \in {ClaudeAbsent, ClaudeInvalid}
                  \cup {ClaudeDoc(o, m, NoProjects) :
                          o \in PartialMaps(ClaudeOtherKeys, OpaqueVals),
                          m \in MsFields}
    /\ settings = FileAbsent
    /\ cache = CacheAbsent
    /\ last = NoResult
    /\ listed = <<>>
    /\ procs = NoProcs
    /\ parsed = NoParse

NextStore ==
    \/ \E name \in Names, entry \in Entries : AddMCPServer(name, entry)
    \/ \E name \in Names : RemoveMCPServer(name)

SpecStore == InitStore /\ [][NextStore]_vars

(***************************************************************************)
(* Specification of the Global Server Store written, read back and        *)
(* updated through config.Writer.                                          *)
(***************************************************************************)
\* entries of an import file: with headers, and an npx server
ImportEntries ==
    {Entry("http", "", <<>>, "https://u", AuthHeaders, FALSE),
     Entry("stdio", "npx", <<"-y", "pkg@1.0.0">>, "", NoHeaders, FALSE)}

InitGlobal ==
    /\ claude \in {ClaudeAbsent, ClaudeInvalid}
                  \cup {ClaudeDoc(EmptyMap, m, NoProjects) : m \in MsFields}
    /\ settings = FileAbsent
    /\ cache = CacheAbsent
    /\ last = NoResult
    /\ listed = <<>>
    /\ procs = NoProcs
    /\ parsed = NoParse

NextGlobal ==
    \/ \E name \in Names, entry \in Entries : AddMCPServer(name, entry)
    \/ \E name \in Names : RemoveMCPServer(name)
    \/ ListMCPServersGlobal
    \/ \E name \in Names : MCPServerExists(name)
    \/ \E name \in Names : runUpdate(name)
    \/ \E name \in Names, entry \in ImportEntries : runConfigImport(name, entry)

SpecGlobal == InitGlobal /\ [][NextGlobal]_vars

(***************************************************************************)
(* Specification of the Aggregator over the three sources.                 *)
(***************************************************************************)
ProjectPath(i) == <<"/p1", "/p2", "/p3", "/p4">>[i]
Projects == {ProjectPath(i) : i \in 1..MaxProjects}

CfgNpx == ServerObj("", "npx", <<"-y", "pkg">>, "", NoHeaders, FALSE)
CfgUrl == ServerObj("", "", <<>>, "https://u", NoHeaders, FALSE)
CfgTyped == ServerObj("stdio", "uvx", <<"pkg">>, "", NoHeaders, FALSE)
\* an entry as AddMCPServer writes it for an enabled server
CfgEnabled == ServerObj("http", "", <<>>, "https://e", NoHeaders, TRUE)

\* mcpServers maps a project may carry
ProjectMaps ==
    {NoServers, [k \in {"x"} |-> CfgNpx], [k \in {"X"} |-> CfgTyped],
     [k \in {"x"} |-> CfgEnabled],
     [k \in Names |-> IF k = "x" THEN CfgUrl ELSE CfgNpx]}

ProjectsFields ==
    {[t |-> x, p |-> NoProjectMaps] : x \in {"absent", "bad"}}
    \cup {[t |-> "obj", p |-> f] : f \in PartialMaps(Projects, ProjectMaps)}

Descriptors ==
    {DescAbsent, DescInvalid,
     Descriptor([k \in {"x"} |-> CfgNpx], NoWrap),
     Descriptor([k \in {"x"} |-> CfgUrl], [t |-> "obj", m |-> [k \in {"X"} |-> CfgTyped]]),
     Descriptor(NoServers, [t |-> "obj", m |-> [k \in {"x"} |-> CfgUrl]]),
     Descriptor([k \in {"x"} |-> NonObject(StrVal)],
                [t |-> "obj", m |-> [k \in {"x"} |-> CfgNpx]])}

Caches ==
    {CacheAbsent, CacheDir(<<>>), CacheDir(<<PubFile("pub")>>),
     CacheDir(<<PubNoPerm("pub")>>), CacheDir(<<PubDir("pub", <<SubFile("plug")>>)>>)}
    \cup {CacheDir(<<PubDir("pub", <<SubDir("plug", d)>>)>>) : d \in Descriptors}

\* settings.json files whose enabledPlugins keys are server names
OverlayFiles ==
    {FileAbsent, FileInvalid}
    \cup {SettingsDoc(EmptyMap, e) :
            e \in {[t |-> "absent", m |-> EmptyMap]}
                  \cup {[t |-> "obj", m |-> f] :
                          f \in PartialMaps(Names, {"true", "false", "str"})}}

InitAgg ==
    /\ claude \in {ClaudeAbsent, ClaudeInvalid}
                  \cup {ClaudeDoc(EmptyMap, NoMs, pr) : pr \in ProjectsFields}
    /\ settings \in OverlayFiles
    /\ cache \in Caches
    /\ last = NoResult
    /\ listed = <<>>
    /\ procs = NoProcs
    /\ parsed = NoParse

NextAgg == ListMCPServers

SpecAgg == InitAgg /\ [][NextAgg]_vars

(***************************************************************************)
(* Specification of the Plugin Cache Scanner: caches of two publishers,    *)
(* the second with two entries, listed by the Aggregator.                  *)
(***************************************************************************)
ScanDescriptors ==
    Descriptors
    \cup {Descriptor([k \in Names |-> IF k = "x" THEN CfgUrl ELSE CfgNpx], NoWrap),
          Descriptor(NoServers, [t |-> "obj", m |-> [k \in Names |-> CfgTyped]]),
          Descriptor(NoServers, [t |-> "obj", m |-> NoServers]),
          Descriptor([k \in {"x"} |-> NonObject(NullVal)], NoWrap)}

FirstPubs ==
    {PubFile("a"), PubNoPerm("a"), PubDir("a", <<>>),
     PubDir("a", <<SubDir("plug", Descriptor([k \in {"x"} |-> CfgNpx], NoWrap))>>)}

FirstSubs ==
    {SubFile(".mcp.json"), SubFile("a"), SubDir("a", DescAbsent),
     SubDir("a", DescInvalid),
     SubDir("a", Descriptor([k \in {"X"} |-> CfgUrl], NoWrap))}

SecondSubs ==
    {SubDir("plug", d) : d \in ScanDescriptors}
    \cup {PluginDir("plug", DescAbsent, <<VersionDir("1.0", d)>>) :
            d \in {Descriptor([k \in {"x"} |-> CfgNpx], NoWrap),
                   Descriptor(NoServers, [t |-> "obj", m |-> [k \in {"x"} |-> CfgUrl]])}}

ScanCaches ==
    {CacheDir(<<p, PubDir("pub", <<s1, s2>>)>>) :
        p \in FirstPubs, s1 \in FirstSubs, s2 \in SecondSubs}

InitScan ==
    /\ claude \in {ClaudeAbsent,
                    ClaudeDoc(EmptyMap, NoMs,
                              [t |-> "obj", p |-> [k \in {ProjectPath(1)} |-> [n \in {"x"} |-> CfgNpx]]])}
    /\ settings = FileAbsent
    /\ cache \in ScanCaches
    /\ last = NoResult
    /\ listed = <<>>
    /\ procs = NoProcs
    /\ parsed = NoParse

NextScan == ListMCPServers

SpecScan == InitScan /\ [][NextScan]_vars

(***************************************************************************)
(* Specification of the Global Server Store mutated and then listed by the *)
(* Aggregator.                                                             *)
(***************************************************************************)
InstallEntry == Entry("stdio", "npx", <<"-y", "pkg">>, "", NoHeaders, FALSE)

InitSync ==
    /\ claude \in {ClaudeAbsent, ClaudeInvalid}
                  \cup {ClaudeDoc(EmptyMap, m, pr) :
                          m \in {NoMs, [t |-> "obj", m |-> NoServers],
                                 [t |-> "obj", m |-> [k \in {"x"} |-> CfgNpx]]},
                          pr \in ProjectsFields}
    /\ settings = FileAbsent
    /\ cache \in {CacheAbsent,
                  CacheDir(<<PubDir("pub", <<SubDir("plug", Descriptor([k \in {"x"} |-> CfgNpx], NoWrap))>>)>>)}
    /\ last = NoResult
    /\ listed = <<>>
    /\ procs = NoProcs
    /\ parsed = NoParse

NextSync ==
    \/ \E name \in Names : AddMCPServer(name, InstallEntry)
    \/ \E name \in Names : RemoveMCPServer(name)
    \/ ListMCPServers

SpecSync == InitSync /\ [][NextSync]_vars

(***************************************************************************)
(* Specification of parsePluginID on every string of bounded length.       *)
(***************************************************************************)
IdChars == {"a", "b", "@"}

RECURSIVE Strings(_)
\* the strings over IdChars of length at most n
Strings(n) ==
    IF n = 0 THEN {<<>>}
    ELSE Strings(n - 1)
         \cup {Append(s, c) : s \in {t \in Strings(n - 1) : Len(t) = n - 1}, c \in IdChars}

InitParse ==
    /\ parsed \in {[NoParse EXCEPT !.in = s] : s \in Strings(MaxIdLen)}
    /\ settings = FileAbsent
    /\ claude = ClaudeAbsent
    /\ cache = CacheAbsent
    /\ last = NoResult
    /\ listed = <<>>
    /\ procs = NoProcs

NextParse == ParsePluginID

SpecParse == InitParse /\ [][NextParse]_vars

(***************************************************************************)
(* Specification of the plugin listing.                                    *)
(***************************************************************************)
\* identifiers whose order by bytes differs from their order by name
ListIds == {"a@pub", "B@pub", "a@b@pub"}

InitList ==
    /\ settings \in {FileAbsent, FileInvalid}
                    \cup {SettingsDoc(EmptyMap, e) : e \in EpFields(ListIds)}
    /\ claude = ClaudeAbsent
    /\ cache = CacheAbsent
    /\ last = NoResult
    /\ listed = <<>>
    /\ procs = NoProcs
    /\ parsed = NoParse

NextList == \E enabledOnly \in BOOLEAN : Execute(enabledOnly)

SpecList == InitList /\ [][NextList]_vars

(***************************************************************************)
(* Specification of two invocations that mutate the same store.            *)
(***************************************************************************)
InitRace ==
    /\ claude \in {ClaudeAbsent,
                   ClaudeDoc(EmptyMap, NoMs, NoProjects),
                   ClaudeDoc(EmptyMap, [t |-> "obj", m |-> [k \in {"x"} |-> CfgNpx]], NoProjects)}
    /\ settings \in {FileAbsent,
                     SettingsDoc(EmptyMap, NoField),
                     SettingsDoc(EmptyMap, [t |-> "obj", m |-> [k \in {"a@pub"} |-> "false"]])}
    /\ cache = CacheAbsent
    /\ last = NoResult
    /\ listed = <<>>
    /\ procs = NoProcs
    /\ parsed = NoParse

NextRace ==
    \/ \E p \in Procs, name \in Names : BeginAddMCPServer(p, name)
    \/ \E p \in Procs : EndAddMCPServer(p, InstallEntry)
    \/ \E p \in Procs, id \in Ids, v \in BOOLEAN : BeginSetPluginEnabled(p, id, v)
    \/ \E p \in Procs : EndSetPluginEnabled(p)

SpecRace == InitRace /\ [][NextRace]_vars

(***************************************************************************)
(* Specification of every mutation on stores that may be missing.          *)
(***************************************************************************)
InitMutate ==
    /\ settings \in {FileAbsent, FileInvalid, SettingsDoc(EmptyMap, NoField),
                     SettingsDoc([k \in {"customField"} |-> StrVal],
                                 [t |-> "obj", m |-> [k \in {"a@pub"} |-> "true"]])}
    /\ claude \in {ClaudeAbsent, ClaudeInvalid, ClaudeDoc(EmptyMap, NoMs, NoProjects),
                   ClaudeDoc([k \in {"numStartups"} |-> StrVal],
                             [t |-> "obj", m |-> [k \in {"x"} |-> CfgNpx]], NoProjects)}
    /\ cache = CacheAbsent
    /\ last = NoResult
    /\ listed = <<>>
    /\ procs = NoProcs
    /\ parsed = NoParse

NextMutate ==
    \/ \E id \in Ids, v \in BOOLEAN : SetPluginEnabled(id, v)
    \/ \E id \in Ids : Enable(id)
    \/ \E id \in Ids : Disable(id)
    \/ \E name \in Names : AddMCPServer(name, InstallEntry)
    \/ \E name \in Names : RemoveMCPServer(name)

SpecMutate == InitMutate /\ [][NextMutate]_vars

(***************************************************************************)
(* Claims about the Settings Store and the toggle state machine.           *)
(***************************************************************************)
SettingsMutators == {"SetPluginEnabled", "Enable", "Disable"}

\* every enabledPlugins entry of s other than id is in s2 with the same value
OtherEntriesKept(s, s2, id) ==
    s.ep.t = "obj" =>
        /\ s2.ep.t = "obj"
        /\ \A k \in (DOMAIN s.ep.m) \ {id} :
              k \in DOMAIN s2.ep.m /\ s2.ep.m[k] = s.ep.m[k]

\* C1: a successful setEnabled(id, v) on an existing settings document, and
\* every successful Enable/Disable, leaves every top-level field other than
\* enabledPlugins and every enabledPlugins entry other than id with the
\* value it had before the call.
C1_SetEnabledPreservesOtherFields ==
    [][(last'.op \in SettingsMutators /\ last'.err = "none" /\ settings.st = "doc")
         => /\ settings'.st = "doc"
            /\ settings'.other = settings.other
            /\ OtherEntriesKept(settings, settings', last'.id)]_vars

\* C2: a successful Enable(id) immediately followed by Status(id) reports
\* Enabled=true, a successful Disable(id) immediately followed by Status(id)
\* reports Enabled=false; the same holds for SetPluginEnabled(id, v)
\* followed by GetPluginStatus(id), which also reports that id exists.
C2_ToggleThenStatus ==
    /\ (last.op = "Status" /\ last.after = "Enable")
          => (last.err = "none" /\ last.enabled)
    /\ (last.op = "Status" /\ last.after = "Disable")
          => (last.err = "none" /\ ~last.enabled)
    /\ (last.op = "GetPluginStatus" /\ last.after = "SetPluginEnabled")
          => (last.err = "none" /\ last.exists /\ last.enabled = last.afterEnabled)

C2_Witness ==
    /\ last.op = "Status" /\ last.after = "Enable"
    /\ last.was = "true" /\ last.enabled

\* the repository reads settings.json and reports id with the value v
ReadsAs(s, id, v) ==
    /\ s.st = "doc" /\ SettingsTypedOk(s)
    /\ s.ep.t = "obj" /\ id \in DOMAIN s.ep.m /\ s.ep.m[id] = v

\* C3: Enable(id) on an identifier that is already Enabled returns success
\* with WasAlready=true and writes nothing (the store is unchanged), and so
\* does Disable(id) on an identifier that is already Disabled; the second
\* of two consecutive Enable(id) (Disable(id)) reports WasAlready=true and
\* does not write.
C3_AlreadyMeansNoWrite ==
    /\ [][(last'.op = "Enable" /\ ReadsAs(settings, last'.id, "true"))
           => (last'.err = "none" /\ last'.already /\ last'.enabled
               /\ ~last'.wrote /\ settings' = settings)]_vars
    /\ [][(last'.op = "Disable" /\ ReadsAs(settings, last'.id, "false"))
           => (last'.err = "none" /\ last'.already /\ ~last'.enabled
               /\ ~last'.wrote /\ settings' = settings)]_vars
    /\ []((last.op \in {"Enable", "Disable"} /\ last.after = last.op)
           => (last.err = "none" /\ last.already /\ ~last.wrote))

C3_Witness ==
    /\ last.op = "Enable" /\ last.after = "Enable"
    /\ last.already /\ ~last.wrote /\ last.was = "true"

\* id is not a key of the enabled map of a readable Settings Store
Unknown(s, id) == Stored(s, id) \in {"absent", "unknown"}

\* C4 as stated: Enable(id) and Disable(id) on an identifier that is absent
\* from the Settings Store fail with NotFound, write nothing and leave the
\* identifier absent.
C4_UnknownIsNotFound ==
    [][(last'.op \in {"Enable", "Disable"} /\ Unknown(settings, last'.id))
         => (last'.err = "notfound" /\ ~last'.wrote
             /\ Unknown(settings', last'.id))]_vars

\* C4 amended: on an identifier that is absent from the Settings Store
\* neither Enable(id) nor Disable(id) fails with NotFound; a successful
\* Enable(id) reports WasAlready=false, writes and leaves id stored as
\* enabled; Disable(id) on a readable store succeeds with WasAlready=true,
\* writes nothing and leaves id absent.
C4_UnknownEnableRegisters ==
    /\ [](last.op \in {"Enable", "Disable"} => last.err # "notfound")
    /\ [][(last'.op = "Enable" /\ Unknown(settings, last'.id) /\ last'.err = "none")
           => (~last'.already /\ last'.enabled /\ last'.wrote
               /\ Stored(settings', last'.id) = "true")]_vars
    /\ [][(last'.op = "Disable" /\ Unknown(settings, last'.id)
           /\ (settings.st = "doc" => SettingsTypedOk(settings)))
           => (last'.err = "none" /\ last'.already /\ ~last'.enabled
               /\ ~last'.wrote /\ settings' = settings)]_vars

C4_Witness ==
    /\ last.op = "Enable" /\ last.was = "unknown" /\ last.err = "none"
    /\ ~last.already /\ last.wrote
    /\ Stored(settings, last.id) = "true"

(***************************************************************************)
(* Claims about the Global Server Store.                                   *)
(***************************************************************************)
\* C5: addServer(name, def) fails with AlreadyExists exactly when name is
\* already a key of the managed mcpServers map (exact, case-sensitive
\* match); on a readable document without that key it succeeds unless the
\* file system fails the write, and name is a key afterwards; a second
\* addServer with the same name fails with AlreadyExists.
C5_AddFailsIffPresent ==
    /\ [][last'.op = "AddMCPServer"
           => (last'.err = "exists" <=> StoredServer(claude, last'.id) = "present")]_vars
    /\ [][(last'.op = "AddMCPServer"
           /\ StoredServer(claude, last'.id) \in {"nomap", "missing"})
           => /\ last'.err \in {"none", "io"}
              /\ last'.wrote
              /\ last'.err = "none" => StoredServer(claude', last'.id) = "present"]_vars
    /\ []((last.op = "AddMCPServer" /\ last.after = "AddMCPServer")
           => last.err = "exists")

C5_Witness ==
    /\ last.op = "AddMCPServer" /\ last.after = "AddMCPServer"
    /\ last.err = "exists" /\ last.was = "present"
    /\ StoredServer(claude, "x") # StoredServer(claude, "X")

\* C6: removeServer(name) fails with NotFound exactly when the document has
\* no mcpServers map or name is not a key of it; otherwise it succeeds
\* unless the file system fails the write, and name is absent afterwards; a
\* second removeServer with the same name fails with NotFound.
C6_RemoveFailsIffAbsent ==
    /\ [][last'.op = "RemoveMCPServer"
           => (last'.err = "notfound"
               <=> StoredServer(claude, last'.id) \in {"nomap", "missing"})]_vars
    /\ [][(last'.op = "RemoveMCPServer" /\ StoredServer(claude, last'.id) = "present")
           => /\ last'.err \in {"none", "io"}
              /\ last'.wrote
              /\ last'.err = "none" => StoredServer(claude', last'.id) = "missing"]_vars
    /\ []((last.op = "RemoveMCPServer" /\ last.after = "RemoveMCPServer")
           => last.err = "notfound")

C6_Witness ==
    /\ last.op = "RemoveMCPServer" /\ last.after = "RemoveMCPServer"
    /\ last.err = "notfound" /\ last.was = "missing"

\* C7: a successful addServer(name, def) or removeServer(name) leaves every
\* top-level field of ~/.claude.json other than mcpServers, and every
\* mcpServers entry other than name, with the value it had before the call.
C7_ServerMutationPreservesOtherFields ==
    [][(last'.op \in {"AddMCPServer", "RemoveMCPServer"} /\ last'.err = "none")
         => /\ claude'.st = "doc"
            /\ claude'.other = claude.other
            /\ claude'.projects = claude.projects
            /\ \A k \in (DOMAIN claude.ms.m) \ {last'.id} :
                  k \in DOMAIN claude'.ms.m /\ claude'.ms.m[k] = claude.ms.m[k]]_vars

(***************************************************************************)
(* Claims about the Aggregator.                                            *)
(***************************************************************************)
ListedNames == {listed[i].Name : i \in 1..Len(listed)}

\* C8: after addServer(name, def) succeeds, listAll() contains an entry
\* named name; after removeServer(name) succeeds, listAll() contains no
\* entry for name that comes from the Global Server Store.
C8_ListReflectsManagedMap ==
    /\ (last.op = "ListMCPServers" /\ last.after = "AddMCPServer")
          => last.id \in ListedNames
    /\ (last.op = "ListMCPServers" /\ last.after = "RemoveMCPServer")
          => \A i \in 1..Len(listed) :
                ~(listed[i].Name = last.id /\ listed[i].Source = ClaudePath)

\* the values the document at source holds under name
OriginCfgs(name, source) ==
    IF source = ClaudePath
    THEN {claude.projects.p[pr][name] :
            pr \in {q \in DOMAIN claude.projects.p : name \in DOMAIN claude.projects.p[q]}}
    ELSE UNION {UNION {
            {d.top[name] : x \in {y \in {1} : name \in DOMAIN d.top}}
            \cup {d.wrap.m[name] : x \in {y \in {1} : name \in DOMAIN d.wrap.m}} :
               d \in {cache.pubs[i].subs[j].desc :
                        j \in {n \in 1..Len(cache.pubs[i].subs) :
                                 McpPath(cache.pubs[i].name, cache.pubs[i].subs[n].name) = source}}} :
            i \in 1..Len(cache.pubs)}

\* C9: for each entry of listAll(): if enabledPlugins of the Settings Store
\* has a key equal to the entry's name, the entry's enabled is that key's
\* (boolean) value; otherwise it is the enabled value its own source gives,
\* false when the source gives none.
C9_OverlayByExactName ==
    last.op = "ListMCPServers" =>
        \A i \in 1..Len(listed) :
            IF Stored(settings, listed[i].Name) \in {"true", "false"}
            THEN listed[i].Enabled = (Stored(settings, listed[i].Name) = "true")
            ELSE \E cfg \in OriginCfgs(listed[i].Name, listed[i].Source) :
                    /\ listed[i].Command = cfg.command
                    /\ listed[i].URL = cfg.url
                    /\ listed[i].Enabled = cfg.enabled

\* C10: every server definition the Aggregator returns has a non-empty
\* type; when the origin omits the type it is command if the command field
\* of the origin is non-empty and http otherwise.
C10_TypeAlwaysSet ==
    last.op = "ListMCPServers" =>
        \A i \in 1..Len(listed) :
            /\ listed[i].Type # ""
            /\ \E cfg \in OriginCfgs(listed[i].Name, listed[i].Source) :
                  /\ listed[i].Command = cfg.command
                  /\ listed[i].URL = cfg.url
                  /\ listed[i].Type =
                        IF cfg.type # "" THEN cfg.type
                        ELSE IF cfg.command # "" THEN "command" ELSE "http"

C10_Witness ==
    /\ last.op = "ListMCPServers"
    /\ \E i, j \in 1..Len(listed) :
          /\ listed[i].Type = "command" /\ listed[i].Source = ClaudePath
          /\ listed[j].Type = "http" /\ listed[j].Source # ClaudePath

\* the document of ~/.claude.json cannot be decoded into ClaudeConfig
ClaudeUnreadable == claude.st # "doc" \/ claude.projects.t = "bad"

\* the entries of servers without their enabled flag
Bare(servers) == [i \in 1..Len(servers) |-> [servers[i] EXCEPT !.Enabled = FALSE]]

\* C11: listAll() never returns an error; when ~/.claude.json cannot be read
\* the entries of the plugin cache are still returned, when the plugin
\* cache cannot be read the entries of ~/.claude.json are still returned,
\* and when neither can be read the result is the empty list.
C11_ListNeverFails ==
    last.op = "ListMCPServers" =>
        /\ last.err = "none"
        /\ ClaudeUnreadable =>
              Bare(listed) \in {Bare(b) : b \in ReadPluginConfigs(cache).servers}
        /\ cache.st = "absent" =>
              Bare(listed) \in {Bare(a) : a \in ReadClaudeJSON(claude).servers}
        /\ (ClaudeUnreadable /\ cache.st = "absent") => listed = <<>>

C11_Witness ==
    /\ last.op = "ListMCPServers" /\ last.err = "none"
    /\ claude.st = "invalid" /\ settings.st = "absent"
    /\ Len(listed) >= 1

\* the documents the Aggregator reads server definitions from
AllSources ==
    {ClaudePath}
    \cup UNION {{McpPath(cache.pubs[i].name, cache.pubs[i].subs[j].name) :
                   j \in 1..Len(cache.pubs[i].subs)} : i \in 1..Len(cache.pubs)}

\* the interpretations of the descriptor d that define name
Forms(d, name) ==
    {f \in {"flat", "wrapped"} :
        \/ f = "flat" /\ FlatOk(d) /\ name \in DOMAIN d.top
        \/ f = "wrapped" /\ WrappedOk(d) /\ name \in DOMAIN d.wrap.m}

\* how many times name is defined in the document at source, as the
\* Aggregator decodes it
Definitions(name, source) ==
    IF source = ClaudePath
    THEN IF ClaudeUnreadable THEN 0
         ELSE Cardinality({pr \in DOMAIN claude.projects.p :
                              name \in DOMAIN claude.projects.p[pr]})
    ELSE Cardinality(UNION {UNION {
            {<<i, j, f>> : f \in Forms(cache.pubs[i].subs[j].desc, name)} :
               j \in {n \in 1..Len(cache.pubs[i].subs) :
                        /\ cache.pubs[i].subs[n].kind = "dir"
                        /\ McpPath(cache.pubs[i].name, cache.pubs[i].subs[n].name) = source}} :
            i \in {n \in 1..Len(cache.pubs) : cache.pubs[n].kind = "dir"}})

\* C12: listAll() returns one entry for every definition of a name in every
\* source document: a name defined in two documents, or twice in one
\* (projects of ~/.claude.json, the two forms of a descriptor), is listed
\* that many times, each entry with its own source; none is merged or
\* dropped.
C12_DuplicatesKept ==
    last.op = "ListMCPServers" =>
        /\ \A i \in 1..Len(listed) :
              listed[i].Name \in Names /\ listed[i].Source \in AllSources
        /\ \A name \in Names, source \in AllSources :
              Cardinality({i \in 1..Len(listed) :
                             listed[i].Name = name /\ listed[i].Source = source})
                = Definitions(name, source)

C12_Witness ==
    /\ last.op = "ListMCPServers"
    /\ \E i, j \in 1..Len(listed) :
          /\ i # j /\ listed[i].Name = listed[j].Name
          /\ listed[i].Source = ClaudePath /\ listed[j].Source # ClaudePath

C14_NoStoreFromNothing ==
    /\ [][(last'.op \in SettingsMutators /\ settings.st = "absent")
           => (last'.err = "io" /\ settings'.st = "absent")]_vars
    /\ [][(last'.op \in {"AddMCPServer", "RemoveMCPServer"} /\ claude.st = "absent")
           => (last'.err = "io" /\ claude'.st = "absent")]_vars

\* C14 amended: when the target store file does not exist,
\* Writer.SetPluginEnabled, addServer and removeServer fail with an I/O
\* error and the file still does not exist afterwards; in the toggle use
\* case Disable(id) succeeds as already disabled without creating the file,
\* and a successful Enable(id) creates the settings file, which then holds
\* only enabledPlugins = {id: true}.
C14_OnlyEnableCreatesTheStore ==
    /\ [][(last'.op = "SetPluginEnabled" /\ settings.st = "absent")
           => (last'.err = "io" /\ settings'.st = "absent")]_vars
    /\ [][(last'.op \in {"AddMCPServer", "RemoveMCPServer"} /\ claude.st = "absent")
           => (last'.err = "io" /\ claude'.st = "absent")]_vars
    /\ [][(last'.op = "Disable" /\ settings.st = "absent")
           => (last'.err = "none" /\ last'.already /\ ~last'.wrote
               /\ settings'.st = "absent")]_vars
    /\ [][(last'.op = "Enable" /\ settings.st = "absent")
           => /\ last'.err \in {"none", "io"}
              /\ last'.err = "none" =>
                    settings' = SettingsDoc(EmptyMap,
                                    [t |-> "obj", m |-> [k \in {last'.id} |-> "true"]])]_vars

C14_Witness ==
    /\ last.op = "Enable" /\ last.was = "absent" /\ last.err = "none"
    /\ settings = SettingsDoc(EmptyMap, [t |-> "obj", m |-> [k \in {last.id} |-> "true"]])

\* C15: when addServer, removeServer or setEnabled returns an error, the
\* target store holds what it held before the call: the complete old
\* document, never a partial one.
C15_FailedMutationLeavesStore ==
    [][(last'.op \in {"AddMCPServer", "RemoveMCPServer", "SetPluginEnabled"}
        /\ last'.err # "none")
         => (settings' = settings /\ claude' = claude)]_vars

(***************************************************************************)
(* Claims about concurrent invocations.                                    *)
(***************************************************************************)
\* p made the first successful write and q the second one, with the same
\* operation on another key, and q had read the document before p wrote
Raced(p, q) ==
    /\ p # q /\ procs[p].op = procs[q].op /\ procs[p].id # procs[q].id
    /\ procs[p].at = 1 /\ procs[q].at = 2 /\ procs[q].seen = 0

\* C16: the read-modify-write cycle is not atomic.  When two invocations
\* mutate the same store on different keys, both read the document before
\* either writes and both writes succeed, the store holds for the key of
\* the first writer what the second writer had read: the update written
\* first is lost and the other one is in the store.
C16_LostUpdate ==
    \A p, q \in Procs :
        /\ (Raced(p, q) /\ procs[p].op = "AddMCPServer")
              => /\ StoredServer(claude, procs[p].id) \in {"nomap", "missing"}
                 /\ StoredServer(claude, procs[q].id) = "present"
        /\ (Raced(p, q) /\ procs[p].op = "SetPluginEnabled")
              => /\ Stored(settings, procs[p].id) = Stored(procs[q].snapS, procs[p].id)
                 /\ Stored(settings, procs[q].id) = BoolTok(procs[q].value)

C16_Witness ==
    \E p, q \in Procs :
        /\ Raced(p, q) /\ procs[p].op = "AddMCPServer"
        /\ procs[p].err = "none" /\ procs[q].err = "none"
        /\ StoredServer(claude, procs[p].id) = "missing"
        /\ StoredServer(claude, procs[q].id) = "present"

ListedIDs == {listed[i].ID : i \in 1..Len(listed)}

\* the enabledPlugins object of the settings file, empty if there is none
StoredMap == IF settings.st = "doc" /\ settings.ep.t = "obj" THEN settings.ep.m ELSE EmptyMap

\* C18: a listing that succeeds with enabledOnly=true returns exactly the
\* identifiers whose stored value is true, each once; with
\* enabledOnly=false it returns every stored identifier exactly once;
\* every entry carries the stored enabled value of its identifier (a
\* stored null is not enabled).
C18_ListingIsExact ==
    (last.op = "Execute" /\ last.err = "none") =>
        /\ Cardinality(ListedIDs) = Len(listed)
        /\ ListedIDs = IF last.enabled
                       THEN {id \in DOMAIN StoredMap : StoredMap[id] = "true"}
                       ELSE DOMAIN StoredMap
        /\ \A i \in 1..Len(listed) :
              listed[i].Enabled = (StoredMap[listed[i].ID] = "true")

C18_Witness ==
    /\ last.op = "Execute" /\ last.err = "none" /\ last.enabled
    /\ Len(listed) = 1 /\ Cardinality(DOMAIN StoredMap) = 3

\* the number of "@" in the string s
Ats(s) == Cardinality({i \in 1..Len(s) : s[i] = "@"})

\* C19: parsePluginID(s) splits s at the last "@": name is everything
\* before it and publisher everything after it, also when name contains
\* "@"; when s contains no "@", name = s and publisher is empty.
C19_SplitAtLastAt ==
    parsed.done =>
        IF Ats(parsed.in) = 0
        THEN parsed.name = parsed.in /\ parsed.publisher = <<>>
        ELSE /\ parsed.in = parsed.name \o <<"@">> \o parsed.publisher
             /\ Ats(parsed.publisher) = 0

C19_Witness ==
    /\ parsed.done /\ Ats(parsed.name) = 1
    /\ parsed.name # <<"@">> /\ parsed.publisher # <<>>

\* the names of servers are in ascending order of their bytes
SortedByName(servers) ==
    \A i \in 1..(Len(servers) - 1) :
        ~Less(Chars(servers[i + 1].Name), Chars(servers[i].Name))

\* C20: the server list that the list command presents from ListMCPServers
\* is sorted by name ascending in lexicographic byte order, whatever the
\* iteration order of the underlying maps.
C20_PresentedListsSorted ==
    last.op = "ListMCPServers" =>
        \A listEnabledOnly \in BOOLEAN : SortedByName(runList(listed, listEnabledOnly))

(***************************************************************************)
(* Claims about the Plugin Cache Scanner.                                  *)
(***************************************************************************)
\* the descriptors two levels below the cache root: <<path, descriptor>>
Leaves ==
    UNION {{<<McpPath(cache.pubs[i].name, cache.pubs[i].subs[j].name),
              cache.pubs[i].subs[j].desc>> :
               j \in {n \in 1..Len(cache.pubs[i].subs) :
                        cache.pubs[i].subs[n].kind = "dir"}} :
            i \in {n \in 1..Len(cache.pubs) : cache.pubs[n].kind = "dir"}}

\* how many listed entries are called name and come from source
Emitted(name, source) ==
    Cardinality({i \in 1..Len(listed) :
                   listed[i].Name = name /\ listed[i].Source = source})

\* every value of the server map m can be decoded as a server config
AllConfigs(m) == \A k \in DOMAIN m : CfgDecodable(m[k])

\* C21: a descriptor that is a flat mapping from server name to config
\* yields one entry per key; a descriptor that wraps the mapping in the
\* field mcpServers yields one entry per wrapped name; no entry is named
\* mcpServers, so a server defined once is emitted once.
C21_OneEntryPerName ==
    last.op = "ListMCPServers" =>
        /\ \A i \in 1..Len(listed) : listed[i].Name # "mcpServers"
        /\ \A leaf \in Leaves, name \in Names :
              LET d == leaf[2] IN
              /\ (d.st = "doc" /\ d.wrap.t = "absent" /\ AllConfigs(d.top)) =>
                    Emitted(name, leaf[1]) = IF name \in DOMAIN d.top THEN 1 ELSE 0
              /\ (d.st = "doc" /\ d.wrap.t = "obj" /\ d.top = NoServers
                    /\ AllConfigs(d.wrap.m)) =>
                    Emitted(name, leaf[1]) = IF name \in DOMAIN d.wrap.m THEN 1 ELSE 0

C21_Witness ==
    /\ last.op = "ListMCPServers"
    /\ \E leaf \in Leaves :
          /\ leaf[2].st = "doc" /\ leaf[2].wrap.t = "obj" /\ leaf[2].top = NoServers
          /\ DOMAIN leaf[2].wrap.m = Names
          /\ \A name \in Names : Emitted(name, leaf[1]) = 1

\* C22: the scan reads a descriptor only from the directories exactly two
\* levels below the cache root; entries that are not directories,
\* sub-directories that cannot be read and leaf directories without a
\* readable descriptor contribute no entry and no error, and the servers of
\* every remaining leaf directory are still listed.
C22_ScanSkipsSilently ==
    last.op = "ListMCPServers" =>
        /\ last.err = "none"
        /\ \A i \in 1..Len(listed) :
              \/ listed[i].Source = ClaudePath
              \/ \E leaf \in Leaves :
                    /\ leaf[1] = listed[i].Source
                    /\ Forms(leaf[2], listed[i].Name) # {}
        /\ \A leaf \in Leaves, name \in Names :
              Forms(leaf[2], name) # {} => Emitted(name, leaf[1]) >= 1

C22_Witness ==
    /\ last.op = "ListMCPServers" /\ last.err = "none"
    /\ Len(cache.pubs) = 2 /\ cache.pubs[1].kind = "noperm"
    /\ Len(cache.pubs[2].subs) = 2
    /\ cache.pubs[2].subs[1].name = ".mcp.json"
    /\ \E i \in 1..Len(listed) :
          listed[i].Source = McpPath(cache.pubs[2].name, cache.pubs[2].subs[2].name)

\* the descriptors three levels below the cache root, where the plugin cache
\* is documented to keep them: <<path, descriptor>>
VersionLeaves ==
    UNION {UNION {{<<VersionPath(cache.pubs[i].name, cache.pubs[i].subs[j].name,
                                 cache.pubs[i].subs[j].vers[v].name),
                     cache.pubs[i].subs[j].vers[v].desc>> :
                      v \in 1..Len(cache.pubs[i].subs[j].vers)} :
               j \in {n \in 1..Len(cache.pubs[i].subs) :
                        cache.pubs[i].subs[n].kind = "dir"}} :
            i \in {n \in 1..Len(cache.pubs) : cache.pubs[n].kind = "dir"}}

\* C23: the servers of a descriptor stored at
\* plugins/cache/<publisher>/<plugin>/<version>/.mcp.json are in the result
\* of the scan and of listAll().
C23_VersionedDescriptorListed ==
    last.op = "ListMCPServers" =>
        \A leaf \in VersionLeaves, name \in Names :
            Forms(leaf[2], name) # {} => Emitted(name, leaf[1]) >= 1

(***************************************************************************)
(* Claims about reading the Global Server Store back.                      *)
(***************************************************************************)
\* the keys of the managed map whose value is an object
ObjectKeys(c) ==
    IF c.st = "doc" /\ c.ms.t = "obj" THEN {k \in DOMAIN c.ms.m : c.ms.m[k].obj}
    ELSE {}

C25_TypeIsCommandOrHttp ==
    last.op = "ListMCPServers" =>
        \A i \in 1..Len(listed) : listed[i].Type \in {"command", "http"}

\* C26: setEnabled(id, v) called twice in a row, both calls succeeding,
\* leaves the document written by the second call identical to the one
\* written by the first.
C26_SetEnabledTwice ==
    [][(/\ last.op = "SetPluginEnabled" /\ last.err = "none"
        /\ last'.op = "SetPluginEnabled" /\ last'.err = "none"
        /\ last'.id = last.id /\ last'.enabled = last.enabled)
         => settings' = settings]_vars

C26_Witness ==
    /\ last.op = "SetPluginEnabled" /\ last.err = "none" /\ last.wrote
    /\ last.after = "SetPluginEnabled" /\ last.afterEnabled = last.enabled
    /\ last.was = BoolTok(last.enabled)
    /\ DOMAIN settings.other # {}

\* C27: Enable(id) on an identifier that is not in a readable repository
\* does not fail for the missing identifier: it succeeds unless the file
\* system fails the write, returns Enabled=true with WasAlready=false, and
\* afterwards the repository reports the identifier as enabled.
C27_EnableNewPlugin ==
    [][(/\ last'.op = "Enable" /\ Unknown(settings, last'.id)
        /\ settings.st = "doc" => SettingsTypedOk(settings))
         => /\ last'.err \in {"none", "io"}
            /\ ~last'.already
            /\ last'.err = "none" =>
                  /\ last'.enabled
                  /\ IsPluginEnabled(settings', last'.id) = [err |-> "none", enabled |-> TRUE]
                  /\ Stored(settings', last'.id) = "true"]_vars

C27_Witness ==
    /\ last.op = "Enable" /\ last.was = "unknown" /\ last.err = "none"
    /\ last.enabled /\ ~last.already
    /\ IsPluginEnabled(settings, last.id).enabled
    /\ \E other \in DOMAIN settings.ep.m : other # last.id

\* C28: exists(name) is true exactly when addServer(name, _) would fail
\* with AlreadyExists and removeServer(name) would succeed, for every
\* content of the managed map, entries that are not objects included; and
\* exists changes nothing.
C28_ExistsAgreesWithMutations ==
    /\ []((last.op = "MCPServerExists" /\ last.err = "none") =>
            /\ last.exists <=> AddMCPServerOn(claude, last.id, InstallEntry, "ok").err = "exists"
            /\ last.exists <=> RemoveMCPServerOn(claude, last.id, "ok").err = "none")
    /\ [][last'.op = "MCPServerExists" => claude' = claude]_vars

\* C29: addServer(name, def) followed by listServers() returns for name a
\* definition equal to def in type, command, args, url and headers.
C29_AddThenListReturnsDef ==
    [][\A name \in Names, entry \in Entries :
          (AddMCPServer(name, entry) /\ last'.err = "none") =>
              LET r == ListMCPServersGlobalResult(claude')
              IN /\ r.err = "none" /\ name \in DOMAIN r.servers
                 /\ r.servers[name].Type = entry.Type
                 /\ r.servers[name].Command = entry.Command
                 /\ r.servers[name].Args = entry.Args
                 /\ r.servers[name].URL = entry.URL
                 /\ r.servers[name].Headers = entry.Headers]_vars

\* C30: replacing an existing server (update, import --merge) never ends
\* with the server absent: when the second step fails the server that was
\* there before is still present.
C30_ReplaceKeepsServer ==
    [][(/\ last'.op \in {"runUpdate", "runConfigImport"}
        /\ last'.exists /\ last'.wrote /\ last'.err # "none")
         => StoredServer(claude', last'.id) = "present"]_vars

====
